---------------------------- MODULE Spec2Model ----------------------------
(***************************************************************************)
(* Model of the cleaning and feature-engineering cells of the notebook     *)
(* src/PROJET-Steam.py (PySpark).  The table games_df is a sequence of     *)
(* rows; every statement `games_df = ...` of the notebook is one action,   *)
(* taken in notebook order (pc is the index of the next statement).        *)
(*                                                                         *)
(* Conventions                                                             *)
(*  - a nullable Spark value is a sequence of length 0 (null) or 1;        *)
(*  - a Spark string is a sequence of one-character strings;               *)
(*  - a date is a record [y, m, d];                                        *)
(*  - a double is a record [num, den] standing for the quotient num/den;   *)
(*  - LongType is two's complement on LongBits bits (64 in Spark),         *)
(*    IntegerType on IntBits bits (32 in Spark);                           *)
(*  - a grouped frame (groupBy(...).agg(...)) is the set of its rows;      *)
(*  - rerun names the stage whose cells have just been run a second time   *)
(*    ("none" otherwise); raised holds the exception that stopped the run  *)
(*    (pc = 0), null while the run goes on.                                *)
(* Spark runs with its default configuration (the notebook sets none):     *)
(* non-ANSI arithmetic and casts, java.time based date parsing.            *)
(***************************************************************************)
EXTENDS Integers, Sequences, FiniteSets, TLC

VARIABLES df, games_df, genres_exploded_df, genre_counts_df, genre_reviews_df,
          total_games, platform_agg_df, platform_share_df, price_by_genre_df,
          pc, rerun, raised

vars == <<df, games_df, genres_exploded_df, genre_counts_df, genre_reviews_df,
          total_games, platform_agg_df, platform_share_df, price_by_genre_df,
          pc, rerun, raised>>

-----------------------------------------------------------------------------
(* Nullable values *)

NULL == <<>>

Some(x) == <<x>>

IsNull(v) == v = <<>>

Val(v) == v[1]

-----------------------------------------------------------------------------
(* Bounds of the model *)

\* width of the modelled LongType (64 in Spark)
LongBits == 5

\* longest text drawn from the small alphabets
MaxLen == 4

\* longest numeric text
MaxNumLen == 3

\* width of the modelled IntegerType (32 in Spark)
IntBits == 6

\* largest number of rows of an input table
MaxRows == 2

-----------------------------------------------------------------------------
(* Characters *)

Digits == <<"0", "1", "2", "3", "4", "5", "6", "7", "8", "9">>

IsDigit(c) == \E i \in 1..10 : Digits[i] = c

DigitVal(c) == (CHOOSE i \in 1..10 : Digits[i] = c) - 1

\* java.util.regex \s
IsSpace(c) == c \in {" ", "\t", "\n", "\r", "\f"}

UpperChars ==
    <<"A", "B", "C", "D", "E", "F", "G", "H", "I", "J", "K", "L", "M",
      "N", "O", "P", "Q", "R", "S", "T", "U", "V", "W", "X", "Y", "Z">>

LowerChars ==
    <<"a", "b", "c", "d", "e", "f", "g", "h", "i", "j", "k", "l", "m",
      "n", "o", "p", "q", "r", "s", "t", "u", "v", "w", "x", "y", "z">>

ToLower(c) ==
    IF \E i \in 1..26 : UpperChars[i] = c
    THEN LowerChars[CHOOSE i \in 1..26 : UpperChars[i] = c]
    ELSE c

\* all texts over an alphabet of length at most n
TextsUpTo(alphabet, n) == UNION {[1..k -> alphabet] : k \in 0..n}

-----------------------------------------------------------------------------
(* withColumn: adds the column, or overwrites it when it exists *)

WithColumn(row, name, value) ==
    [c \in (DOMAIN row) \cup {name} |-> IF c = name THEN value ELSE row[c]]

-----------------------------------------------------------------------------
(* F.regexp_replace: java.util.regex replaceAll, matches found left to     *)
(* right, the scan resuming after each match.                              *)

RECURSIVE ReplaceChar(_, _, _)
\* regexp_replace(s, c, r) for a one-character literal pattern c
ReplaceChar(s, c, r) ==
    IF s = <<>> THEN <<>>
    ELSE IF Head(s) = c THEN r \o ReplaceChar(Tail(s), c, r)
    ELSE <<Head(s)>> \o ReplaceChar(Tail(s), c, r)

\* the same pattern without its lookahead (?!\d)
PadMatchesAtNoLookahead(s, i) ==
    /\ i + 1 <= Len(s)
    /\ s[i] = "-"
    /\ IsDigit(s[i + 1])

\* pattern -(\d)(?!\d) matches at position i of s
PadMatchesAt(s, i) ==
    /\ i + 1 <= Len(s)
    /\ s[i] = "-"
    /\ IsDigit(s[i + 1])
    /\ (i + 2 <= Len(s) => ~IsDigit(s[i + 2]))

RECURSIVE PadFrom(_, _)
PadFrom(s, i) ==
    IF i > Len(s) THEN <<>>
    ELSE IF PadMatchesAt(s, i)
         THEN <<"-", "0", s[i + 1]>> \o PadFrom(s, i + 2)
         ELSE <<s[i]>> \o PadFrom(s, i + 1)

\* regexp_replace(s, r"-(\d)(?!\d)", r"-0$1")
PadSingleDigit(s) == PadFrom(s, 1)

\* regexp_replace over a nullable column: null stays null
OnText(v, F(_)) == IF IsNull(v) THEN NULL ELSE Some(F(Val(v)))

\* commas replaced by blanks instead of removed
CommasToBlanks(s) == ReplaceChar(s, ",", <<" ">>)

RemoveCommas(s) == ReplaceChar(s, ",", <<>>)

SlashesToDashes(s) == ReplaceChar(s, "/", <<"-">>)

-----------------------------------------------------------------------------
(* F.to_date(col, fmt): java.time parsing of the whole text against fmt,    *)
(* strict resolution; null when the text does not parse.                    *)

MonthNames ==
    << <<"j", "a", "n">>, <<"f", "e", "b">>, <<"m", "a", "r">>,
       <<"a", "p", "r">>, <<"m", "a", "y">>, <<"j", "u", "n">>,
       <<"j", "u", "l">>, <<"a", "u", "g">>, <<"s", "e", "p">>,
       <<"o", "c", "t">>, <<"n", "o", "v">>, <<"d", "e", "c">> >>

\* month number of a three-letter abbreviation (any case), 0 when none
MonthOf(w) ==
    LET lw == [j \in 1..Len(w) |-> ToLower(w[j])]
    IN  IF \E n \in 1..12 : MonthNames[n] = lw
        THEN CHOOSE n \in 1..12 : MonthNames[n] = lw
        ELSE 0

IsLeapYear(y) == (y % 4 = 0 /\ y % 100 # 0) \/ y % 400 = 0

DaysInMonth(y, m) ==
    IF m = 2 THEN (IF IsLeapYear(y) THEN 29 ELSE 28)
    ELSE IF m \in {4, 6, 9, 11} THEN 30 ELSE 31

ValidDate(dt) ==
    /\ dt.y >= 1
    /\ dt.m \in 1..12
    /\ dt.d >= 1
    /\ dt.d <= DaysInMonth(dt.y, dt.m)

RECURSIVE DigitRunEnd(_, _)
\* index just after the run of digits of s that starts at i
DigitRunEnd(s, i) ==
    IF i <= Len(s) /\ IsDigit(s[i]) THEN DigitRunEnd(s, i + 1) ELSE i

RECURSIVE NumberOf(_, _, _)
\* value of the digits s[i..j-1]
NumberOf(s, i, j) ==
    IF j <= i THEN 0 ELSE NumberOf(s, i, j - 1) * 10 + DigitVal(s[j - 1])

RECURSIVE ParseTokens(_, _, _, _, _)
\* pattern letters: MMM short month text, MM and dd two digits exactly,
\* d one digit or more, yyyy four digits exactly; anything else is a literal
ParseTokens(fmt, k, s, i, acc) ==
    IF k > Len(fmt)
    THEN IF i = Len(s) + 1 /\ ValidDate(acc) THEN Some(acc) ELSE NULL
    ELSE
      LET t == fmt[k]
          e == DigitRunEnd(s, i)
      IN  CASE t = "MMM" ->
                 IF i + 2 <= Len(s) /\ MonthOf(SubSeq(s, i, i + 2)) > 0
                 THEN ParseTokens(fmt, k + 1, s, i + 3,
                                  [acc EXCEPT !.m = MonthOf(SubSeq(s, i, i + 2))])
                 ELSE NULL
            [] t = "MM" ->
                 IF e >= i + 2
                 THEN ParseTokens(fmt, k + 1, s, i + 2,
                                  [acc EXCEPT !.m = NumberOf(s, i, i + 2)])
                 ELSE NULL
            [] t = "dd" ->
                 IF e >= i + 2
                 THEN ParseTokens(fmt, k + 1, s, i + 2,
                                  [acc EXCEPT !.d = NumberOf(s, i, i + 2)])
                 ELSE NULL
            [] t = "d" ->
                 IF e > i
                 THEN ParseTokens(fmt, k + 1, s, e,
                                  [acc EXCEPT !.d = NumberOf(s, i, e)])
                 ELSE NULL
            [] t = "yyyy" ->
                 IF e = i + 4
                 THEN ParseTokens(fmt, k + 1, s, e,
                                  [acc EXCEPT !.y = NumberOf(s, i, e)])
                 ELSE NULL
            [] OTHER ->
                 IF i <= Len(s) /\ s[i] = t
                 THEN ParseTokens(fmt, k + 1, s, i + 1, acc)
                 ELSE NULL

to_date(v, fmt) ==
    IF IsNull(v) THEN NULL
    ELSE ParseTokens(fmt, 1, Val(v), 1, [y |-> 0, m |-> 0, d |-> 0])

\* the candidate formats, in the order of the F.coalesce call
DateFormats ==
    << <<"MMM", " ", "d", " ", "yyyy">>,
       <<"MMM", " ", "dd", " ", "yyyy">>,
       <<"yyyy", "-", "MM", "-", "dd">>,
       <<"dd", " ", "MMM", " ", "yyyy">>,
       <<"d", " ", "MMM", " ", "yyyy">> >>

\* a coalesce that looks at its first argument only
coalesceFirstOnly(vs) == IF vs = <<>> THEN NULL ELSE Head(vs)

RECURSIVE coalesce(_)
\* F.coalesce: the first non-null value of the list, null when there is none
coalesce(vs) ==
    IF vs = <<>> THEN NULL
    ELSE IF ~IsNull(Head(vs)) THEN Head(vs)
    ELSE coalesce(Tail(vs))

\* a year that falls back on the epoch when the date is missing
yearOrEpoch(v) == IF IsNull(v) THEN Some(1970) ELSE Some(Val(v).y)

\* F.year / F.month of a nullable date
year(v) == IF IsNull(v) THEN NULL ELSE Some(Val(v).y)

month(v) == IF IsNull(v) THEN NULL ELSE Some(Val(v).m)

-----------------------------------------------------------------------------
(* Raw values and casts.  A raw value is a JSON text or a JSON integer.     *)

Text(s) == [kind |-> "text", s |-> s, n |-> 0]

Num(n) == [kind |-> "long", s |-> <<>>, n |-> n]

RECURSIVE Pow(_, _)
Pow(b, e) == IF e = 0 THEN 1 ELSE b * Pow(b, e - 1)

LongMin == -Pow(2, LongBits - 1)

LongMax == Pow(2, LongBits - 1) - 1

LongRange == LongMin..LongMax

\* two's complement wrap-around of LongType arithmetic
WrapLong(x) == ((x - LongMin) % Pow(2, LongBits)) + LongMin

RECURSIVE TrimLeft(_)
TrimLeft(s) == IF s # <<>> /\ IsSpace(Head(s)) THEN TrimLeft(Tail(s)) ELSE s

RECURSIVE TrimRight(_)
TrimRight(s) ==
    IF s # <<>> /\ IsSpace(s[Len(s)])
    THEN TrimRight(SubSeq(s, 1, Len(s) - 1))
    ELSE s

Trim(s) == TrimRight(TrimLeft(s))

AllDigits(s, i, j) == \A k \in i..j : IsDigit(s[k])

\* a text to long conversion without the range check
TextToLongUnchecked(s0) ==
    LET s     == Trim(s0)
        neg   == s # <<>> /\ s[1] = "-"
        start == IF s # <<>> /\ s[1] \in {"-", "+"} THEN 2 ELSE 1
        e     == DigitRunEnd(s, start)
        v     == NumberOf(s, start, e)
        sv    == IF neg THEN -v ELSE v
    IN  IF s = <<>> \/ start > Len(s) THEN NULL
        ELSE IF e <= Len(s) /\ s[e] # "." THEN NULL
        ELSE IF e < Len(s) /\ ~AllDigits(s, e + 1, Len(s)) THEN NULL
        ELSE Some(sv)

\* UTF8String.toLong: trimmed text, optional sign, digits up to an optional
\* '.', then digits only (the fraction is dropped); null when malformed or
\* out of the range of LongType
TextToLong(s0) ==
    LET s     == Trim(s0)
        neg   == s # <<>> /\ s[1] = "-"
        start == IF s # <<>> /\ s[1] \in {"-", "+"} THEN 2 ELSE 1
        e     == DigitRunEnd(s, start)
        v     == NumberOf(s, start, e)
        sv    == IF neg THEN -v ELSE v
    IN  IF s = <<>> \/ start > Len(s) THEN NULL
        ELSE IF e <= Len(s) /\ s[e] # "." THEN NULL
        ELSE IF e < Len(s) /\ ~AllDigits(s, e + 1, Len(s)) THEN NULL
        ELSE IF sv \notin LongRange THEN NULL
        ELSE Some(sv)

\* col.cast(T.LongType())
CastLong(v) ==
    IF IsNull(v) THEN NULL
    ELSE IF Val(v).kind = "long" THEN Some(Val(v).n)
    ELSE TextToLong(Val(v).s)

IntMin == -Pow(2, IntBits - 1)

IntMax == Pow(2, IntBits - 1) - 1

IntRange == IntMin..IntMax

\* UTF8String.toInt: as toLong, with the range of IntegerType
TextToInt(s0) ==
    LET s     == Trim(s0)
        neg   == s # <<>> /\ s[1] = "-"
        start == IF s # <<>> /\ s[1] \in {"-", "+"} THEN 2 ELSE 1
        e     == DigitRunEnd(s, start)
        v     == NumberOf(s, start, e)
        sv    == IF neg THEN -v ELSE v
    IN  IF s = <<>> \/ start > Len(s) THEN NULL
        ELSE IF e <= Len(s) /\ s[e] # "." THEN NULL
        ELSE IF e < Len(s) /\ ~AllDigits(s, e + 1, Len(s)) THEN NULL
        ELSE IF sv \notin IntRange THEN NULL
        ELSE Some(sv)

\* a string column cast to IntegerType
CastInt(v) == IF IsNull(v) THEN NULL ELSE TextToInt(Val(v))

RECURSIVE NatToText(_)
\* decimal digits of a natural number
NatToText(n) ==
    IF n < 10 THEN <<Digits[n + 1]>>
    ELSE NatToText(n \div 10) \o <<Digits[(n % 10) + 1]>>

LongToText(n) == IF n < 0 THEN <<"-">> \o NatToText(-n) ELSE NatToText(n)

\* col.cast(T.StringType()): a text is itself, an integer its decimal text
CastString(v) ==
    IF IsNull(v) THEN NULL
    ELSE IF Val(v).kind = "long" THEN Some(LongToText(Val(v).n))
    ELSE Some(Val(v).s)

RECURSIVE FirstDigitFrom(_, _)
\* index of the first digit of s at or after i, Len(s) + 1 when none
FirstDigitFrom(s, i) ==
    IF i > Len(s) \/ IsDigit(s[i]) THEN i ELSE FirstDigitFrom(s, i + 1)

\* the digits matched by ^(\d+), the pattern anchored at the start
ExtractLeadingDigits(s) == SubSeq(s, 1, DigitRunEnd(s, 1) - 1)

\* the group of the first match of (\d+) in s, the empty text when no match
ExtractDigits(s) ==
    SubSeq(s, FirstDigitFrom(s, 1), DigitRunEnd(s, FirstDigitFrom(s, 1)) - 1)

\* F.regexp_extract(col, r"(\d+)", 1) on a nullable string
regexp_extract(v) == IF IsNull(v) THEN NULL ELSE Some(ExtractDigits(Val(v)))

\* java.lang.Double.parseDouble on texts made of digits, sign, '.' and
\* blanks: trimmed text, optional sign, digits with an optional fraction, at
\* least one digit; the value is num/den
TextToDouble(s0) ==
    LET s     == Trim(s0)
        neg   == s # <<>> /\ s[1] = "-"
        start == IF s # <<>> /\ s[1] \in {"-", "+"} THEN 2 ELSE 1
        e     == DigitRunEnd(s, start)
        dot   == e <= Len(s) /\ s[e] = "."
        f     == IF dot THEN DigitRunEnd(s, e + 1) ELSE e
        nfrac == IF dot THEN f - (e + 1) ELSE 0
        ip    == NumberOf(s, start, e)
        fp    == IF dot THEN NumberOf(s, e + 1, f) ELSE 0
        mag   == ip * Pow(10, nfrac) + fp
    IN  IF f # Len(s) + 1 THEN NULL
        ELSE IF (e - start) + nfrac = 0 THEN NULL
        ELSE Some([num |-> IF neg THEN -mag ELSE mag, den |-> Pow(10, nfrac)])

\* col.cast(T.DoubleType())
CastDouble(v) ==
    IF IsNull(v) THEN NULL
    ELSE IF Val(v).kind = "long" THEN Some([num |-> Val(v).n, den |-> 1])
    ELSE TextToDouble(Val(v).s)

\* col / 100 on a nullable double
DivideBy100(v) ==
    IF IsNull(v) THEN NULL
    ELSE Some([num |-> Val(v).num, den |-> Val(v).den * 100])

\* long / long as double, null when an operand is null
DoubleQuotient(a, b) ==
    IF IsNull(a) \/ IsNull(b) THEN NULL
    ELSE Some([num |-> Val(a), den |-> Val(b)])

\* a total that takes the negative reviews off the positive ones
SubtractLong(a, b) ==
    IF IsNull(a) \/ IsNull(b) THEN NULL
    ELSE Some(WrapLong(Val(a) - Val(b)))

\* long + long, null when an operand is null
AddLong(a, b) ==
    IF IsNull(a) \/ IsNull(b) THEN NULL
    ELSE Some(WrapLong(Val(a) + Val(b)))

-----------------------------------------------------------------------------
(* Input tables *)

\* texts of the examples
DATE_SLASH == <<"2", "0", "0", "0", "/", "1", "1", "/", "1">>

DATE_ISO == <<"2", "0", "0", "0", "-", "1", "1", "-", "0", "1">>

DATE_COMMA == <<"O", "c", "t", " ", "2", "1", ",", " ", "2", "0", "0", "8">>

DATE_NOCOMMA == <<"O", "c", "t", " ", "2", "1", " ", "2", "0", "0", "8">>

GENRES_EXAMPLE == <<"A", "c", "t", "i", "o", "n", ",", " ", "I", "n", "d", "i", "e", " ", ",", "R", "P", "G">>

\* release dates as the catalog writes them, and texts that are no date
DateTexts ==
    { <<"O", "c", "t", " ", "2", "1", ",", " ", "2", "0", "0", "8">>,
      <<"2", "0", "0", "0", "/", "1", "1", "/", "1">>,
      <<"2", "0", "0", "0", "-", "1", "1", "-", "0", "1">>,
      <<"T", "B", "A">>,
      <<"C", "o", "m", "i", "n", "g", " ", "s", "o", "o", "n">>,
      <<"1", " ", "O", "c", "t", " ", "2", "0", "0", "8">>,
      <<"2", "1", " ", "O", "c", "t", " ", "2", "0", "0", "8">>,
      <<"0", "5", " ", "M", "a", "r", " ", "2", "0", "1", "9">>,
      <<"D", "e", "c", " ", "3", "1", ",", " ", "2", "0", "1", "8">>,
      <<"J", "a", "n", " ", "1", ",", " ", "2", "0", "1", "9">>,
      <<"D", "e", "c", " ", "3", "1", ",", " ", "2", "0", "2", "1">>,
      <<"J", "a", "n", " ", "1", ",", " ", "2", "0", "2", "2">>,
      <<"2", "0", "1", "9", "-", "1", "-", "1">>,
      <<"2", "0", "2", "1", "/", "1", "2", "/", "3", "1">>,
      <<"F", "e", "b", " ", "2", "9", ",", " ", "2", "0", "2", "0">>,
      <<"F", "e", "b", " ", "3", "0", ",", " ", "2", "0", "2", "0">>,
      <<"o", "c", "t", " ", "5", " ", "2", "0", "1", "8">>,
      <<"O", "c", "t", " ", "2", "0", "0", "8">>,
      <<" ", "O", "c", "t", " ", "2", "1", ",", " ", "2", "0", "0", "8">>,
      <<"O", "c", "t", " ", "2", "1", ",", " ", "2", "0", "0", "8", " ">>,
      <<"2", "0", "2", "2", "-", "3", "-", "1", "5">>,
      <<"O", "c", "t", " ", "0", "2", "1", " ", "2", "0", "0", "8">>,
      <<"2", "0", "0", "0", "-", "1", "1", "-", "1", "x">>,
      <<"1", "/", "2", "/", "2", "0", "2", "0">> }

\* genre lists as the catalog writes them
GenreTexts ==
    { <<>>,
      <<"A", "c", "t", "i", "o", "n">>,
      <<"A", "c", "t", "i", "o", "n", ",", " ", "I", "n", "d", "i", "e", " ", ",", "R", "P", "G">>,
      <<"A", "c", "t", "i", "o", "n", ",", "A", "c", "t", "i", "o", "n">>,
      <<"I", "n", "d", "i", "e", ",", ",", "R", "P", "G">>,
      <<"R", "P", "G", ",", " ">> }

DateAlphabet == {",", "/", "-", "1", "2"}

GenreAlphabet == {"a", ",", " "}

NumAlphabet == {"1", "9", "-", ".", " ", "x"}

\* every Text value over texts, and null
NullableTexts(texts) == {NULL} \cup {Some(Text(s)) : s \in texts}

\* every string over texts, and null
NullableStrings(texts) == {NULL} \cup {Some(s) : s \in texts}

DefaultPlatforms ==
    [linux |-> Some(FALSE), mac |-> Some(FALSE), windows |-> Some(TRUE)]

DefaultData ==
    [appid         |-> Some(10),
     name          |-> Some(<<"G">>),
     genre         |-> Some(<<"R", "P", "G">>),
     publisher     |-> NULL,
     developer     |-> NULL,
     type          |-> NULL,
     price         |-> Some(Text(<<"9", "9", "9">>)),
     initialprice  |-> Some(Text(<<"9", "9", "9">>)),
     discount      |-> Some(Text(<<"0">>)),
     required_age  |-> Some(Text(<<"0">>)),
     positive      |-> Some(Num(9)),
     negative      |-> Some(Num(1)),
     languages     |-> NULL,
     owners        |-> NULL,
     ccu           |-> Some(Num(0)),
     platforms     |-> Some(DefaultPlatforms),
     release_date  |-> Some(<<"T", "B", "A">>)]

InputRow(id, data) == [id |-> id, data |-> Some(data)]

\* one row, the release date varies
DateTables ==
    { <<InputRow(Some(1), [DefaultData EXCEPT !.release_date = d])>> :
        d \in NullableStrings(DateTexts \cup TextsUpTo(DateAlphabet, MaxLen)) }

\* one row, the two review counters vary over LongType and null
ReviewTables ==
    { <<InputRow(Some(1), [DefaultData EXCEPT !.positive = p, !.negative = n])>> :
        p \in {NULL} \cup {Some(Num(x)) : x \in LongRange},
        n \in {NULL} \cup {Some(Num(x)) : x \in LongRange} }

\* one row, the numeric fields vary over texts, integers and null
CastTables ==
    { <<InputRow(Some(1), [DefaultData EXCEPT !.price = a, !.discount = a,
                                              !.positive = a, !.ccu = a,
                                              !.required_age = a,
                                              !.initialprice = b,
                                              !.negative = b])>> :
        a \in NullableTexts(TextsUpTo(NumAlphabet, MaxNumLen))
                \cup {Some(Num(LongMin)), Some(Num(LongMax))},
        b \in {NULL, Some(Text(<<"1">>)), Some(Text(<<"x">>)), Some(Num(1))} }

\* one row, the genre list varies over short texts
GenreTables ==
    { <<InputRow(Some(1), [DefaultData EXCEPT !.genre = g])>> :
        g \in NullableStrings(TextsUpTo(GenreAlphabet, MaxLen)) }

\* row k of a catalog: its identifier is k, or is missing
CatalogRows(k) ==
    { InputRow(id, [DefaultData EXCEPT !.genre = g, !.appid = Some(10 + k)]) :
        id \in {NULL, Some(k)},
        g \in NullableStrings(GenreTexts) }

RECURSIVE CatalogsOfLen(_)
CatalogsOfLen(n) ==
    IF n = 0 THEN {<<>>}
    ELSE {Append(t, r) : t \in CatalogsOfLen(n - 1), r \in CatalogRows(n)}

\* tables of several rows, identifiers and genre lists vary
CatalogTables == UNION {CatalogsOfLen(n) : n \in 0..MaxRows}

\* a platform flag: true, false or missing
Flags == {NULL, Some(TRUE), Some(FALSE)}

\* one row, the three platform flags vary, or the platforms struct is missing
PlatformTables ==
    { <<InputRow(Some(1), [DefaultData EXCEPT !.platforms = p])>> :
        p \in {NULL} \cup
              {Some([linux |-> l, mac |-> m, windows |-> w]) :
                  l \in Flags, m \in Flags, w \in Flags} }

\* row k of a platform catalog: Windows games whose macOS flag varies
PlatformRows(k) ==
    { InputRow(Some(k), [DefaultData EXCEPT
                            !.appid = Some(10 + k),
                            !.platforms = Some([linux |-> Some(FALSE),
                                                mac |-> m, windows |-> w])]) :
        m \in Flags, w \in {NULL, Some(TRUE)} }

\* row k of a review catalog: the genre list may repeat a category, a
\* counter may be missing or at the top of LongType
ReviewRows(k) ==
    { InputRow(Some(k), [DefaultData EXCEPT
                            !.appid = Some(10 + k), !.genre = Some(g),
                            !.positive = p, !.negative = n]) :
        g \in {<<"A", ",", "A">>, <<"A", ",", "B">>},
        p \in {NULL, Some(Num(3)), Some(Num(LongMax))},
        n \in {NULL, Some(Num(1))} }

\* row k of an application catalog: app_id is missing, shared or its own
AppRows(k) ==
    { InputRow(Some(k), [DefaultData EXCEPT !.appid = a, !.genre = Some(g)]) :
        a \in {NULL, Some(10), Some(10 + k)},
        g \in {<<"A">>, <<"A", ",", "A">>} }

\* the tables of n rows whose row k is drawn from RowsAt(k)
TablesOfLen(n, RowsAt(_)) ==
    {t \in [1..n -> UNION {RowsAt(k) : k \in 1..n}] :
        \A k \in 1..n : t[k] \in RowsAt(k)}

\* tables of at least one row for the aggregates
AggregateTables ==
    UNION {TablesOfLen(n, PlatformRows) \cup TablesOfLen(n, ReviewRows)
               \cup TablesOfLen(n, AppRows) : n \in 1..MaxRows}

InputTables ==
    DateTables \cup ReviewTables \cup CastTables \cup GenreTables
        \cup CatalogTables \cup PlatformTables \cup AggregateTables

-----------------------------------------------------------------------------
(* F.split and F.explode *)

RECURSIVE SpaceRunEnd(_, _)
\* index just after the run of \s characters of s that starts at i
SpaceRunEnd(s, i) ==
    IF i <= Len(s) /\ IsSpace(s[i]) THEN SpaceRunEnd(s, i + 1) ELSE i

RECURSIVE SplitFrom(_, _, _)
\* java.lang.String.split(",\\s*", -1): the pieces between the matches, the
\* piece after the last match included even when empty
SplitFrom(s, start, i) ==
    IF i > Len(s) THEN <<SubSeq(s, start, Len(s))>>
    ELSE IF s[i] = ","
         THEN <<SubSeq(s, start, i - 1)>>
                  \o SplitFrom(s, SpaceRunEnd(s, i + 1), SpaceRunEnd(s, i + 1))
         ELSE SplitFrom(s, start, i + 1)

\* F.split(col, r",\s*") on a nullable string
split(v) == IF IsNull(v) THEN NULL ELSE Some(SplitFrom(Val(v), 1, 1))

\* F.explode of the array column of one row into a new column: one row per
\* element, no row for a null or empty array
ExplodeRow(row, arraycol, newcol) ==
    IF IsNull(row[arraycol]) THEN <<>>
    ELSE [k \in 1..Len(Val(row[arraycol])) |->
             WithColumn(row, newcol, Some(Val(row[arraycol])[k]))]

RECURSIVE FlattenRows(_)
FlattenRows(tables) ==
    IF tables = <<>> THEN <<>> ELSE Head(tables) \o FlattenRows(Tail(tables))

explode(table, arraycol, newcol) ==
    FlattenRows([r \in 1..Len(table) |-> ExplodeRow(table[r], arraycol, newcol)])

\* the rows of a table that a predicate keeps, in order
Filter(table, Keep(_)) == SelectSeq(table, Keep)

\* a table with one column added to (or overwritten in) every row
MapRows(table, F(_)) == [r \in 1..Len(table) |-> F(table[r])]

\* a field of a nullable struct, null when the struct is null
Field(v, f) == IF IsNull(v) THEN NULL ELSE Val(v)[f]

-----------------------------------------------------------------------------
(* Three-valued column logic *)

\* col == True / col == False: null when the column is null
EqualsLit(v, lit) == IF IsNull(v) THEN NULL ELSE Some(Val(v) = lit)

\* a & b: false when either is false, else null when either is null
And3(a, b) ==
    IF a = Some(FALSE) \/ b = Some(FALSE) THEN Some(FALSE)
    ELSE IF IsNull(a) \/ IsNull(b) THEN NULL
    ELSE Some(TRUE)

\* the condition of F.when / filter holds: true, neither false nor null
Holds(c) == c = Some(TRUE)

\* (windows == w) & (mac == m) & (linux == l)
PlatformFlag(row, w, m, l) ==
    And3(And3(EqualsLit(row.platform_windows, w),
              EqualsLit(row.platform_mac, m)),
         EqualsLit(row.platform_linux, l))

\* the F.when chain of platform_profile
platform_profile(row) ==
    IF Holds(row.is_tri_platform) THEN "Windows + macOS + Linux"
    ELSE IF Holds(row.is_windows_mac) THEN "Windows + macOS"
    ELSE IF Holds(row.is_windows_linux) THEN "Windows + Linux"
    ELSE IF Holds(row.is_windows_only) THEN "Windows only"
    ELSE "Others"

-----------------------------------------------------------------------------
(* Aggregation: F.sum, F.countDistinct, F.count over the rows of a group   *)

\* a sum that turns null when it leaves LongType
SumOverflowToNull(acc, v) ==
    IF IsNull(v) THEN acc
    ELSE IF IsNull(acc) THEN v
    ELSE IF Val(acc) + Val(v) \in LongRange THEN Some(Val(acc) + Val(v))
    ELSE NULL

\* the reducer of F.sum on LongType: nulls are skipped, the sum wraps; it
\* adds a value to a partial sum and merges two partial sums alike
SumLong(acc, v) ==
    IF IsNull(v) THEN acc
    ELSE IF IsNull(acc) THEN v
    ELSE Some(WrapLong(Val(acc) + Val(v)))

RECURSIVE SumOf(_)
\* F.sum of a sequence of nullable longs, in one pass
SumOf(vs) ==
    IF vs = <<>> THEN NULL
    ELSE SumLong(SumOf(SubSeq(vs, 1, Len(vs) - 1)), vs[Len(vs)])

\* the values of a column over the rows of a table, in row order
Column(table, c) == [r \in 1..Len(table) |-> table[r][c]]

\* the rows of a table whose genre is g, in row order
GroupOf(table, g) == SelectSeq(table, LAMBDA row : row.genre = g)

\* the keys of groupBy("genre")
GenreKeys(table) == {table[r].genre : r \in DOMAIN table}

\* the non-null values of a column: the buffer of F.countDistinct
DistinctOf(table, c) ==
    {Val(table[r][c]) : r \in {q \in DOMAIN table : ~IsNull(table[q][c])}}

\* F.countDistinct(c)
countDistinct(table, c) == Cardinality(DistinctOf(table, c))

\* F.when(sum_total_reviews > 0, sum_positive / sum_total_reviews)
\*  .otherwise(None)
positive_rate(sum_positive, sum_total_reviews) ==
    IF ~IsNull(sum_total_reviews) /\ Val(sum_total_reviews) > 0
    THEN DoubleQuotient(sum_positive, sum_total_reviews)
    ELSE NULL

\* one row of genre_counts_df
genre_counts_row(table, g) ==
    [genre |-> g, nb_games |-> countDistinct(GroupOf(table, g), "app_id")]

\* one row of genre_reviews_df
genre_reviews_row(table, g) ==
    LET rows == GroupOf(table, g)
        sp == SumOf(Column(rows, "positive"))
        sn == SumOf(Column(rows, "negative"))
        st == SumOf(Column(rows, "total_reviews"))
    IN  [genre |-> g,
         nb_games |-> countDistinct(rows, "app_id"),
         sum_positive |-> sp,
         sum_negative |-> sn,
         sum_total_reviews |-> st,
         positive_rate |-> positive_rate(sp, st)]

\* one row of price_by_genre_df; of its columns the model keeps nb_games
price_by_genre_row(table, g) ==
    [genre |-> g, nb_games |-> Len(GroupOf(table, g))]

\* F.sum(F.when(col == True, 1).otherwise(0)): null over an empty table
CountTrue(table, c) ==
    IF table = <<>> THEN NULL
    ELSE Some(Cardinality({r \in DOMAIN table :
                              Holds(EqualsLit(table[r][c], TRUE))}))

-----------------------------------------------------------------------------
(* The notebook *)

COVID_START_YEAR == 2019

COVID_END_YEAR == 2021

\* the chain with the start year left out of the covid years
covid_period_late_start(release_year) ==
    IF IsNull(release_year) THEN "unknown"
    ELSE IF Val(release_year) <= COVID_START_YEAR THEN "pre_covid"
    ELSE IF Val(release_year) >= COVID_START_YEAR
              /\ Val(release_year) <= COVID_END_YEAR THEN "covid"
    ELSE "post_covid"

\* the F.when chain of covid_period
covid_period(release_year) ==
    IF IsNull(release_year) THEN "unknown"
    ELSE IF Val(release_year) < COVID_START_YEAR THEN "pre_covid"
    ELSE IF Val(release_year) >= COVID_START_YEAR
              /\ Val(release_year) <= COVID_END_YEAR THEN "covid"
    ELSE "post_covid"

\* the ratio guarded against a zero denominator only
positive_ratio_nonzero(positive, total_reviews) ==
    IF ~IsNull(total_reviews) /\ Val(total_reviews) # 0
    THEN DoubleQuotient(positive, total_reviews)
    ELSE NULL

\* F.when(total_reviews > 0, positive.cast(double) / total_reviews)
\*  .otherwise(None)
positive_ratio(positive, total_reviews) ==
    IF ~IsNull(total_reviews) /\ Val(total_reviews) > 0
    THEN DoubleQuotient(positive, total_reviews)
    ELSE NULL

\* the columns build_games_df adds to one row of df
build_games_row(row) ==
    LET data == row.data
        platforms == Field(data, "platforms")
    IN  [c \in (DOMAIN row) \cup
               {"app_id", "name", "genre_raw", "publisher", "developer", "type",
                "price_raw", "initialprice_raw", "discount_raw",
                "required_age_raw", "positive_raw", "negative_raw",
                "languages_raw", "owners_raw", "ccu", "platform_linux",
                "platform_mac", "platform_windows", "release_date_raw"} |->
           CASE c = "id"               -> row.id
             [] c = "app_id"           -> Field(data, "appid")
             [] c = "name"             -> Field(data, "name")
             [] c = "genre_raw"        -> Field(data, "genre")
             [] c = "publisher"        -> Field(data, "publisher")
             [] c = "developer"        -> Field(data, "developer")
             [] c = "type"             -> Field(data, "type")
             [] c = "price_raw"        -> Field(data, "price")
             [] c = "initialprice_raw" -> Field(data, "initialprice")
             [] c = "discount_raw"     -> Field(data, "discount")
             [] c = "required_age_raw" -> Field(data, "required_age")
             [] c = "positive_raw"     -> Field(data, "positive")
             [] c = "negative_raw"     -> Field(data, "negative")
             [] c = "languages_raw"    -> Field(data, "languages")
             [] c = "owners_raw"       -> Field(data, "owners")
             [] c = "ccu"              -> Field(data, "ccu")
             [] c = "platform_linux"   -> Field(platforms, "linux")
             [] c = "platform_mac"     -> Field(platforms, "mac")
             [] c = "platform_windows" -> Field(platforms, "windows")
             [] c = "release_date_raw" -> Field(data, "release_date")
             [] OTHER                  -> row[c]]

\* a flattener that leaves out the rows without identifier
build_games_df_dropping(table) ==
    MapRows(SelectSeq(table, LAMBDA row : ~IsNull(row.id)), build_games_row)

\* build_games_df keeps every row of df
build_games_df(table) == MapRows(table, build_games_row)

\* a LongType value held in a column first read from the JSON
AsLong(v) == IF IsNull(v) THEN NULL ELSE Some(Num(Val(v)))

\* 4.1 numeric normalisation of one row
numeric_row(row) ==
    LET r1 == WithColumn(row, "price", CastDouble(row.price_raw))
        r2 == WithColumn(r1, "initialprice", CastDouble(r1.initialprice_raw))
        r3 == WithColumn(r2, "discount", CastDouble(r2.discount_raw))
        r4 == WithColumn(r3, "positive", CastLong(r3.positive_raw))
        r5 == WithColumn(r4, "negative", CastLong(r4.negative_raw))
        r6 == WithColumn(r5, "required_age_str", CastString(r5.required_age_raw))
        r7 == WithColumn(r6, "required_age",
                         CastInt(regexp_extract(r6.required_age_str)))
    IN  WithColumn(r7, "ccu", AsLong(CastLong(r7.ccu)))

\* a conversion that overwrites price with its value in euros
price_eur_row_in_place(row) ==
    LET r1 == WithColumn(row, "price", DivideBy100(row.price))
        r2 == WithColumn(r1, "price_eur", r1.price)
    IN  WithColumn(r2, "initialprice_eur", DivideBy100(r2.initialprice))

\* price_eur, initialprice_eur of one row
price_eur_row(row) ==
    LET r1 == WithColumn(row, "price_eur", DivideBy100(row.price))
    IN  WithColumn(r1, "initialprice_eur", DivideBy100(r1.initialprice))

\* 4.2.1
clean_commas_row(row) ==
    WithColumn(row, "release_date_clean",
               OnText(row.release_date_raw, RemoveCommas))

\* 4.2.2
clean_slashes_row(row) ==
    WithColumn(row, "release_date_clean",
               OnText(row.release_date_clean, SlashesToDashes))

\* 4.2.3
pad_digits_row(row) ==
    WithColumn(row, "release_date_clean",
               OnText(row.release_date_clean, PadSingleDigit))

\* the to_date results of one cleaned text, one per candidate format
DateCandidates(clean) ==
    [k \in 1..Len(DateFormats) |-> to_date(clean, DateFormats[k])]

\* 4.2.4
parse_date_row(row) ==
    WithColumn(row, "release_date_parsed",
               coalesce(DateCandidates(row.release_date_clean)))

\* 4.2.5
keep_null_date_row(row) ==
    WithColumn(row, "release_date_parsed",
               IF IsNull(row.release_date_parsed) THEN NULL
               ELSE row.release_date_parsed)

\* 4.2 as a whole: the five statements in order
date_row(row) ==
    keep_null_date_row(parse_date_row(pad_digits_row(
        clean_slashes_row(clean_commas_row(row)))))

release_year_row(row) ==
    WithColumn(row, "release_year", year(row.release_date_parsed))

release_month_row(row) ==
    WithColumn(row, "release_month", month(row.release_date_parsed))

covid_period_row(row) ==
    WithColumn(row, "covid_period", covid_period(row.release_year))

\* 4.3 as a whole
temporal_row(row) == covid_period_row(release_month_row(release_year_row(row)))

\* 4.4.1
popularity_row(row) ==
    LET r1 == WithColumn(row, "positive", row.positive)
        r2 == WithColumn(r1, "negative", r1.negative)
        r3 == WithColumn(r2, "total_reviews",
                         AddLong(r2.positive, r2.negative))
    IN  WithColumn(r3, "positive_ratio",
                   positive_ratio(r3.positive, r3.total_reviews))

\* 6.1 genre_array
genre_array_row(row) == WithColumn(row, "genre_array", split(row.genre_raw))

\* a filter that keeps the rows of empty genre
KeepGenreNotNull(row) == ~IsNull(row.genre)

\* .filter(F.col("genre").isNotNull() & (F.col("genre") != ""))
KeepGenre(row) == ~IsNull(row.genre) /\ Val(row.genre) # <<>>

\* 6.1 genres_exploded_df
explode_genres(table) ==
    Filter(explode(table, "genre_array", "genre"), KeepGenre)

\* flags whose Windows + macOS case leaves the Linux flag unread
platform_flags_row_overlapping(row) ==
    LET r1 == WithColumn(row, "is_windows_only",
                         PlatformFlag(row, TRUE, FALSE, FALSE))
        r2 == WithColumn(r1, "is_tri_platform",
                         PlatformFlag(r1, TRUE, TRUE, TRUE))
        r3 == WithColumn(r2, "is_windows_mac",
                         And3(EqualsLit(r2.platform_windows, TRUE),
                              EqualsLit(r2.platform_mac, TRUE)))
    IN  WithColumn(r3, "is_windows_linux",
                   PlatformFlag(r3, TRUE, FALSE, TRUE))

\* 7.3 the four flags
platform_flags_row(row) ==
    LET r1 == WithColumn(row, "is_windows_only",
                         PlatformFlag(row, TRUE, FALSE, FALSE))
        r2 == WithColumn(r1, "is_tri_platform",
                         PlatformFlag(r1, TRUE, TRUE, TRUE))
        r3 == WithColumn(r2, "is_windows_mac",
                         PlatformFlag(r2, TRUE, TRUE, FALSE))
    IN  WithColumn(r3, "is_windows_linux",
                   PlatformFlag(r3, TRUE, FALSE, TRUE))

\* 7.4 platform_profile
platform_profile_row(row) ==
    WithColumn(row, "platform_profile", platform_profile(row))

\* one row of platform_share_df: int(count), float(count / total * 100)
platform_share_row(platform, count, total) ==
    [platform |-> platform, nb_games |-> count,
     share_percent |-> [num |-> count * 100, den |-> total]]

Init ==
    /\ df \in InputTables
    /\ games_df = <<>>
    /\ genres_exploded_df = <<>>
    /\ genre_counts_df = {}
    /\ genre_reviews_df = {}
    /\ total_games = NULL
    /\ platform_agg_df = <<>>
    /\ platform_share_df = <<>>
    /\ price_by_genre_df = {}
    /\ rerun = "none"
    /\ raised = NULL
    /\ pc = 1

\* the frames the analyses build
analyses == <<genre_counts_df, genre_reviews_df, total_games,
              platform_agg_df, platform_share_df, price_by_genre_df>>

\* statement s of the notebook replaces games_df by F applied to every row
Step(s, F(_)) ==
    /\ pc = s
    /\ games_df' = MapRows(games_df, F)
    /\ pc' = s + 1
    /\ rerun' = "none"
    /\ UNCHANGED <<df, genres_exploded_df, analyses, raised>>

\* the cells of stage are run once more, just after statement s
Rerun(s, stage, F(_)) ==
    /\ pc = s + 1
    /\ rerun = "none"
    /\ games_df' = MapRows(games_df, F)
    /\ rerun' = stage
    /\ UNCHANGED <<df, genres_exploded_df, analyses, raised, pc>>

\* games_df = build_games_df(df)
BuildGamesDf ==
    /\ pc = 1
    /\ games_df' = build_games_df(df)
    /\ pc' = 2
    /\ UNCHANGED <<df, genres_exploded_df, analyses, rerun, raised>>

NormaliseNumeric == Step(2, numeric_row)

RerunNumeric == Rerun(2, "numeric", numeric_row)

AddPriceEur == Step(3, price_eur_row)

RerunPriceEur == Rerun(3, "price_eur", price_eur_row)

CleanCommas == Step(4, clean_commas_row)

CleanSlashes == Step(5, clean_slashes_row)

PadDigits == Step(6, pad_digits_row)

ParseDate == Step(7, parse_date_row)

KeepNullDate == Step(8, keep_null_date_row)

RerunDate == Rerun(8, "date", date_row)

ReleaseYear == Step(9, release_year_row)

ReleaseMonth == Step(10, release_month_row)

CovidPeriod == Step(11, covid_period_row)

RerunTemporal == Rerun(11, "temporal", temporal_row)

Popularity == Step(12, popularity_row)

RerunPopularity == Rerun(12, "popularity", popularity_row)

SplitGenres == Step(13, genre_array_row)

ExplodeGenres ==
    /\ pc = 14
    /\ genres_exploded_df' = explode_genres(games_df)
    /\ pc' = 15
    /\ rerun' = "none"
    /\ UNCHANGED <<df, games_df, analyses, raised>>

\* 6.1 run once more: genre_array, then genres_exploded_df
RerunGenres ==
    /\ pc = 15
    /\ rerun = "none"
    /\ games_df' = MapRows(games_df, genre_array_row)
    /\ genres_exploded_df' = explode_genres(games_df')
    /\ rerun' = "genres"
    /\ UNCHANGED <<df, analyses, raised, pc>>

\* 6.2 genre_counts_df; orderBy fixes the display order only
GenreCounts ==
    /\ pc = 15
    /\ genre_counts_df' =
           {genre_counts_row(genres_exploded_df, g) :
               g \in GenreKeys(genres_exploded_df)}
    /\ pc' = 16
    /\ rerun' = "none"
    /\ UNCHANGED <<df, games_df, genres_exploded_df, genre_reviews_df,
                   total_games, platform_agg_df, platform_share_df,
                   price_by_genre_df, raised>>

\* 6.3 genre_reviews_df
GenreReviews ==
    /\ pc = 16
    /\ genre_reviews_df' =
           {genre_reviews_row(genres_exploded_df, g) :
               g \in GenreKeys(genres_exploded_df)}
    /\ pc' = 17
    /\ UNCHANGED <<df, games_df, genres_exploded_df, genre_counts_df,
                   total_games, platform_agg_df, platform_share_df,
                   price_by_genre_df, rerun, raised>>

\* 7.2 total_games, platform_agg_df
PlatformAgg ==
    /\ pc = 17
    /\ total_games' = Some(Len(games_df))
    /\ platform_agg_df' =
           <<[windows_count |-> CountTrue(games_df, "platform_windows"),
              mac_count     |-> CountTrue(games_df, "platform_mac"),
              linux_count   |-> CountTrue(games_df, "platform_linux")]>>
    /\ pc' = 18
    /\ UNCHANGED <<df, games_df, genres_exploded_df, genre_counts_df,
                   genre_reviews_df, platform_share_df, price_by_genre_df,
                   rerun, raised>>

\* 7.2 the printed shares and platform_share_df: count / total_games * 100
\* is Python's division, the run stops at the exception it raises
PlatformShare ==
    /\ pc = 18
    /\ LET counts == platform_agg_df[1]
           total  == Val(total_games)
       IN  IF IsNull(counts.windows_count)
           THEN /\ raised' = Some("TypeError")
                /\ pc' = 0
                /\ UNCHANGED platform_share_df
           ELSE IF total = 0
           THEN /\ raised' = Some("ZeroDivisionError")
                /\ pc' = 0
                /\ UNCHANGED platform_share_df
           ELSE /\ platform_share_df' =
                       <<platform_share_row("Windows",
                                            Val(counts.windows_count), total),
                         platform_share_row("macOS",
                                            Val(counts.mac_count), total),
                         platform_share_row("Linux",
                                            Val(counts.linux_count), total)>>
                /\ pc' = 19
                /\ UNCHANGED raised
    /\ UNCHANGED <<df, games_df, genres_exploded_df, genre_counts_df,
                   genre_reviews_df, total_games, platform_agg_df,
                   price_by_genre_df, rerun>>

PlatformFlags == Step(19, platform_flags_row)

PlatformProfile == Step(20, platform_profile_row)

\* 8.2 discount_count / total_games * 100
PromotionShare ==
    /\ pc = 21
    /\ total_games' = Some(Len(games_df))
    /\ IF Len(games_df) = 0
       THEN raised' = Some("ZeroDivisionError") /\ pc' = 0
       ELSE UNCHANGED raised /\ pc' = 22
    /\ UNCHANGED <<df, games_df, genres_exploded_df, genre_counts_df,
                   genre_reviews_df, platform_agg_df, platform_share_df,
                   price_by_genre_df, rerun>>

\* 8.3 price_by_genre_df
PriceByGenre ==
    /\ pc = 22
    /\ price_by_genre_df' =
           {price_by_genre_row(genres_exploded_df, g) :
               g \in GenreKeys(genres_exploded_df)}
    /\ pc' = 23
    /\ UNCHANGED <<df, games_df, genres_exploded_df, genre_counts_df,
                   genre_reviews_df, total_games, platform_agg_df,
                   platform_share_df, rerun, raised>>

Next ==
    \/ BuildGamesDf
    \/ NormaliseNumeric
    \/ RerunNumeric
    \/ AddPriceEur
    \/ RerunPriceEur
    \/ CleanCommas
    \/ CleanSlashes
    \/ PadDigits
    \/ ParseDate
    \/ KeepNullDate
    \/ RerunDate
    \/ ReleaseYear
    \/ ReleaseMonth
    \/ CovidPeriod
    \/ RerunTemporal
    \/ Popularity
    \/ RerunPopularity
    \/ SplitGenres
    \/ ExplodeGenres
    \/ RerunGenres
    \/ GenreCounts
    \/ GenreReviews
    \/ PlatformAgg
    \/ PlatformShare
    \/ PlatformFlags
    \/ PlatformProfile
    \/ PromotionShare
    \/ PriceByGenre

Spec == Init /\ [][Next]_vars

-----------------------------------------------------------------------------
(* Properties *)

\* statement s of the notebook has been executed
Done(s) == pc > s

Rows(table) == {table[r] : r \in DOMAIN table}

\* C1: once the date is parsed, release_date_parsed of every row is the
\* result of the first of the five formats, in the order MMM d yyyy,
\* MMM dd yyyy, yyyy-MM-dd, dd MMM yyyy, d MMM yyyy, that parses the cleaned
\* text, and it is null exactly when none of the five parses it.
C1_FirstFormatWins ==
    Done(7) =>
      \A row \in Rows(games_df) :
        LET fmts == << <<"MMM", " ", "d", " ", "yyyy">>,
                       <<"MMM", " ", "dd", " ", "yyyy">>,
                       <<"yyyy", "-", "MM", "-", "dd">>,
                       <<"dd", " ", "MMM", " ", "yyyy">>,
                       <<"d", " ", "MMM", " ", "yyyy">> >>
            res(k) == to_date(row.release_date_clean, fmts[k])
            parsing == {k \in 1..5 : ~IsNull(res(k))}
        IN  /\ IsNull(row.release_date_parsed) <=> parsing = {}
            /\ parsing # {} =>
                 \E k \in parsing :
                    /\ \A j \in parsing : k <= j
                    /\ row.release_date_parsed = res(k)

\* a row whose date the first two formats do not parse and a later one does
C1_Witness ==
    /\ Done(8)
    /\ \E row \in Rows(games_df) :
          /\ row.release_date_raw = Some(DATE_SLASH)
          /\ IsNull(to_date(row.release_date_clean, DateFormats[1]))
          /\ IsNull(to_date(row.release_date_clean, DateFormats[2]))
          /\ row.release_date_parsed = Some([y |-> 2000, m |-> 11, d |-> 1])

RECURSIVE PadEachToken(_, _)
\* s from position i on, a "0" put before every digit that follows a "-"
\* and is followed by no digit
PadEachToken(s, i) ==
    IF i > Len(s) THEN <<>>
    ELSE (IF /\ IsDigit(s[i])
             /\ i > 1
             /\ s[i - 1] = "-"
             /\ (i = Len(s) \/ ~IsDigit(s[i + 1]))
          THEN <<"0", s[i]>>
          ELSE <<s[i]>>) \o PadEachToken(s, i + 1)

\* C2: once cleaned, release_date_clean of every row is release_date_raw
\* with (1) every comma removed, then (2) every "/" replaced by "-", then
\* (3) a "0" inserted before every single-digit token that follows a "-",
\* longer digit tokens unchanged; 2000/11/1 gives 2000-11-01 and
\* Oct 21, 2008 gives Oct 21 2008; a null text stays null.
C2_CleanIsThreeTransforms ==
    Done(6) =>
      \A row \in Rows(games_df) :
        LET raw == row.release_date_raw
            s1 == SelectSeq(Val(raw), LAMBDA c : c # ",")
            s2 == [k \in 1..Len(s1) |-> IF s1[k] = "/" THEN "-" ELSE s1[k]]
        IN  /\ IsNull(raw) => IsNull(row.release_date_clean)
            /\ ~IsNull(raw) => row.release_date_clean = Some(PadEachToken(s2, 1))
            /\ raw = Some(DATE_SLASH) => row.release_date_clean = Some(DATE_ISO)
            /\ raw = Some(DATE_COMMA) => row.release_date_clean = Some(DATE_NOCOMMA)

\* the row of 2000/11/1, cleaned
C2_Witness ==
    /\ Done(6)
    /\ \E row \in Rows(games_df) :
          /\ row.release_date_raw = Some(DATE_SLASH)
          /\ row.release_date_clean = Some(DATE_ISO)

\* the three cleaning transforms in their order
CleanDate(s) == PadSingleDigit(SlashesToDashes(RemoveCommas(s)))

\* C3: cleaning is idempotent: the three transforms applied to a cleaned
\* text give the same text; 2000-11-01 is left unchanged.
C3_CleanIdempotent ==
    Done(6) =>
      \A row \in Rows(games_df) :
        /\ ~IsNull(row.release_date_clean) =>
              CleanDate(Val(row.release_date_clean)) = Val(row.release_date_clean)
        /\ row.release_date_raw = Some(DATE_ISO) =>
              row.release_date_clean = Some(DATE_ISO)

\* a text that cleaning changed, and the cleaned text is a fixed point
C3_Witness ==
    /\ Done(6)
    /\ \E row \in Rows(games_df) :
          /\ ~IsNull(row.release_date_raw)
          /\ row.release_date_clean # row.release_date_raw
          /\ \E k \in 1..Len(Val(row.release_date_raw)) :
                PadMatchesAt(Val(row.release_date_raw), k)
          /\ CleanDate(Val(row.release_date_clean)) = Val(row.release_date_clean)

\* C4: covid_period is total and exclusive: unknown iff release_year is
\* null, pre_covid iff year < 2019, covid iff 2019 <= year <= 2021,
\* post_covid iff year > 2021.
C4_PeriodBucket ==
    Done(11) =>
      \A row \in Rows(games_df) :
        LET yr == row.release_year
            p == row.covid_period
        IN  /\ p \in {"unknown", "pre_covid", "covid", "post_covid"}
            /\ p = "unknown" <=> IsNull(yr)
            /\ p = "pre_covid" <=> (~IsNull(yr) /\ Val(yr) < 2019)
            /\ p = "covid" <=> (~IsNull(yr) /\ 2019 <= Val(yr) /\ Val(yr) <= 2021)
            /\ p = "post_covid" <=> (~IsNull(yr) /\ Val(yr) > 2021)

\* a row released in the boundary year 2021, classified covid
C4_Witness ==
    /\ Done(11)
    /\ \E row \in Rows(games_df) :
          /\ row.release_year = Some(2021)
          /\ row.covid_period = "covid"

\* C5: total_reviews is the arithmetic sum positive + negative when both
\* counters are non-null, for all values of LongType, and null when either
\* is null.
C5_TotalIsArithmeticSum ==
    Done(12) =>
      \A row \in Rows(games_df) :
        IF IsNull(row.positive) \/ IsNull(row.negative)
        THEN IsNull(row.total_reviews)
        ELSE row.total_reviews = Some(Val(row.positive) + Val(row.negative))

\* C6 as stated: positive_ratio is null iff total_reviews is null or zero.
C6_NullIffTotalNullOrZero ==
    Done(12) =>
      \A row \in Rows(games_df) :
        IsNull(row.positive_ratio) <=>
           (IsNull(row.total_reviews) \/ Val(row.total_reviews) = 0)

\* C6, amended: positive_ratio is null iff total_reviews is null or not
\* greater than zero; in every other case it is the non-null quotient
\* positive / total_reviews.
C6_NullIffTotalNotPositive ==
    Done(12) =>
      \A row \in Rows(games_df) :
        /\ IsNull(row.positive_ratio) <=>
              (IsNull(row.total_reviews) \/ Val(row.total_reviews) <= 0)
        /\ ~IsNull(row.positive_ratio) =>
              /\ ~IsNull(row.positive)
              /\ Val(row.positive_ratio).num = Val(row.positive)
              /\ Val(row.positive_ratio).den = Val(row.total_reviews)

\* a row of negative total_reviews, reached without overflow, with a null
\* ratio
C6_Witness ==
    /\ Done(12)
    /\ \E row \in Rows(games_df) :
          /\ ~IsNull(row.total_reviews)
          /\ Val(row.total_reviews) < 0
          /\ Val(row.total_reviews) = Val(row.positive) + Val(row.negative)
          /\ IsNull(row.positive_ratio)

HasBlankEnd(s) == s # <<>> /\ (IsSpace(s[1]) \/ IsSpace(s[Len(s)]))

\* C7: genre_array holds no empty token and no token with leading or
\* trailing whitespace; "Action, Indie ,RPG" gives [Action, Indie, RPG].
C7_TokensTrimmedNonEmpty ==
    Done(13) =>
      \A row \in Rows(games_df) :
        ~IsNull(row.genre_array) =>
           \A k \in 1..Len(Val(row.genre_array)) :
              /\ Val(row.genre_array)[k] # <<>>
              /\ ~HasBlankEnd(Val(row.genre_array)[k])
              /\ row.genre_raw = Some(GENRES_EXAMPLE) =>
                    row.genre_array =
                       Some(<< <<"A", "c", "t", "i", "o", "n">>,
                               <<"I", "n", "d", "i", "e">>,
                               <<"R", "P", "G">> >>)

\* the parent row of a row of genres_exploded_df
WithoutGenre(row) == [c \in (DOMAIN row) \ {"genre"} |-> row[c]]

\* row of games_df is the parent of the row x of genres_exploded_df: it holds
\* x's columns, whatever columns later statements have added to games_df
IsParent(row, x) ==
    WithoutGenre(x) = [c \in DOMAIN WithoutGenre(x) |-> row[c]]

\* C8 as stated: no two rows of genres_exploded_df share the same entity
\* and the same category.
C8_OneRowPerPair ==
    Done(14) =>
      \A i, j \in DOMAIN genres_exploded_df :
        (/\ ~IsNull(genres_exploded_df[i].id)
         /\ genres_exploded_df[i].id = genres_exploded_df[j].id
         /\ genres_exploded_df[i].genre = genres_exploded_df[j].genre) => i = j

\* C8, amended: genres_exploded_df holds one row per occurrence of a
\* non-empty token in an entity's genre_array: for every entity and every
\* category there are as many rows as occurrences of the category in the
\* array, every row has an entity and a non-empty category, and an entity
\* whose genre_raw is "" or null has no row.
C8_OneRowPerTokenOccurrence ==
    Done(14) =>
      /\ \A x \in Rows(genres_exploded_df) :
            /\ \E row \in Rows(games_df) : IsParent(row, x)
            /\ ~IsNull(x.genre)
            /\ Val(x.genre) # <<>>
      /\ \A row \in Rows(games_df) :
            LET mine == {i \in DOMAIN genres_exploded_df :
                            IsParent(row, genres_exploded_df[i])}
                toks == IF IsNull(row.genre_array) THEN <<>>
                        ELSE Val(row.genre_array)
            IN  /\ \A k \in DOMAIN toks :
                      toks[k] # <<>> =>
                         Cardinality({i \in mine :
                             genres_exploded_df[i].genre = Some(toks[k])})
                           = Cardinality({j \in DOMAIN toks : toks[j] = toks[k]})
                /\ \A i \in mine :
                      \E k \in DOMAIN toks :
                         genres_exploded_df[i].genre = Some(toks[k])
                /\ (IsNull(row.genre_raw) \/ row.genre_raw = Some(<<>>)) =>
                      mine = {}

\* an entity that lists a category twice has two rows of that category
C8_Witness ==
    /\ Done(14)
    /\ \E i, j \in DOMAIN genres_exploded_df :
          /\ i # j
          /\ ~IsNull(genres_exploded_df[i].id)
          /\ genres_exploded_df[i].id = genres_exploded_df[j].id
          /\ genres_exploded_df[i].genre = genres_exploded_df[j].genre

IsDoubleOrNull(v) ==
    IsNull(v) \/ (Val(v).num \in Int /\ Val(v).den \in Nat \ {0})

IsLongOrNull(v) == IsNull(v) \/ Val(v) \in LongRange

\* C10: after the casts every record is still in the table and each of
\* price, initialprice, discount is a double or null and each of positive,
\* negative, ccu is a value of LongType or null; an integer raw value gives
\* a non-null value; price_eur and initialprice_eur are null exactly when
\* price and initialprice are.
C10_CastsTotal ==
    /\ Done(2) =>
         /\ Len(games_df) = Len(df)
         /\ \A row \in Rows(games_df) :
               /\ IsDoubleOrNull(row.price)
               /\ IsDoubleOrNull(row.initialprice)
               /\ IsDoubleOrNull(row.discount)
               /\ IsLongOrNull(row.positive)
               /\ IsLongOrNull(row.negative)
               /\ IsNull(row.ccu)
                     \/ (Val(row.ccu).kind = "long"
                           /\ Val(row.ccu).n \in LongRange)
               /\ IsNull(row.price_raw) => IsNull(row.price)
               /\ IsNull(row.positive_raw) => IsNull(row.positive)
               /\ (~IsNull(row.price_raw) /\ Val(row.price_raw).kind = "long")
                     => ~IsNull(row.price)
               /\ (~IsNull(row.positive_raw) /\ Val(row.positive_raw).kind = "long")
                     => row.positive = Some(Val(row.positive_raw).n)
    /\ Done(3) =>
         /\ Len(games_df) = Len(df)
         /\ \A row \in Rows(games_df) :
               /\ IsNull(row.price_eur) <=> IsNull(row.price)
               /\ IsNull(row.initialprice_eur) <=> IsNull(row.initialprice)
               /\ IsDoubleOrNull(row.price_eur)
               /\ IsDoubleOrNull(row.initialprice_eur)

\* a record whose numeric text is out of the range of LongType and castable
\* to a double, kept with positive null and price_eur non-null
C10_Witness ==
    /\ Done(3)
    /\ \E row \in Rows(games_df) :
          /\ row.positive_raw = Some(Text(<<"1", "9">>))
          /\ IsNull(row.positive)
          /\ row.price_raw = Some(Text(<<"1", "9">>))
          /\ ~IsNull(row.price_eur)
          /\ row.initialprice_raw = Some(Text(<<"x">>))
          /\ IsNull(row.initialprice)
          /\ IsNull(row.initialprice_eur)

\* the positions of the digits of a text
DigitPositions(s) == {i \in 1..Len(s) : IsDigit(s[i])}

\* the first maximal run of digits of a text that holds a digit
FirstDigitRun(s) ==
    LET p == CHOOSE i \in DigitPositions(s) :
                 \A j \in DigitPositions(s) : i <= j
        e == CHOOSE k \in p..Len(s) :
                 /\ \A j \in p..k : IsDigit(s[j])
                 /\ k = Len(s) \/ ~IsDigit(s[k + 1])
    IN  SubSeq(s, p, e)

\* the number a run of digits writes
RunValue(run) == NumberOf(run, 1, Len(run) + 1)

\* C11, as stated: required_age is the value of the first run of digits of
\* the age text, and it is null exactly when the text is null or holds no
\* digit.
C11_AgeNullIffNoDigit ==
    Done(2) =>
        \A row \in Rows(games_df) :
            LET text == row.required_age_str
            IN  IF IsNull(text) \/ DigitPositions(Val(text)) = {}
                THEN IsNull(row.required_age)
                ELSE row.required_age = Some(RunValue(FirstDigitRun(Val(text))))

\* C11, amended: required_age is null exactly when the age text is null,
\* holds no digit, or its first run of digits writes a number beyond
\* IntegerType; otherwise it is the value of that run, wherever the run
\* stands in the text, and a run that writes 0 gives 0. The age text of a
\* textual raw value is that value itself.
C11_AgeNullIffNoDigitOrOutOfRange ==
    Done(2) =>
        \A row \in Rows(games_df) :
            LET text == row.required_age_str
                raw  == row.required_age_raw
            IN  /\ IsNull(text) <=> IsNull(raw)
                /\ (~IsNull(raw) /\ Val(raw).kind = "text")
                       => text = Some(Val(raw).s)
                /\ IF IsNull(text) \/ DigitPositions(Val(text)) = {}
                   THEN IsNull(row.required_age)
                   ELSE LET n == RunValue(FirstDigitRun(Val(text)))
                        IN  IF n \in IntRange
                            THEN row.required_age = Some(n)
                            ELSE IsNull(row.required_age)

\* a text whose first run of digits follows other characters has given its
\* value
C11_Witness ==
    /\ Done(2)
    /\ \E row \in Rows(games_df) :
          /\ ~IsNull(row.required_age_str)
          /\ Len(Val(row.required_age_str)) >= 2
          /\ ~IsDigit(Val(row.required_age_str)[1])
          /\ ~IsNull(row.required_age)
          /\ Val(row.required_age) > 0

\* no candidate format matches a cleaned text
NoFormatMatches(clean) ==
    \A k \in 1..Len(DateFormats) : IsNull(to_date(clean, DateFormats[k]))

\* C12: after the temporal derivation every record of the input is still in
\* the table; a record whose date text matches no candidate format (among
\* them "TBA", "Coming soon" and a missing text) has release_date_parsed
\* null; a record whose release_date_parsed is null has release_year null,
\* release_month null and covid_period "unknown"; release_year and
\* release_month are null only when release_date_parsed is null.
C12_UnparsedDateKeptAsUnknown ==
    Done(11) =>
        /\ Len(games_df) = Len(df)
        /\ \A r \in DOMAIN games_df :
              LET row == games_df[r]
              IN  /\ row.id = df[r].id
                  /\ row.release_date_raw = Field(df[r].data, "release_date")
                  /\ NoFormatMatches(row.release_date_clean)
                        => IsNull(row.release_date_parsed)
                  /\ row.release_date_raw \in
                        {NULL, Some(<<"T", "B", "A">>),
                         Some(<<"C", "o", "m", "i", "n", "g", " ",
                                "s", "o", "o", "n">>)}
                        => IsNull(row.release_date_parsed)
                  /\ IsNull(row.release_date_parsed)
                        => /\ IsNull(row.release_year)
                           /\ IsNull(row.release_month)
                           /\ row.covid_period = "unknown"
                  /\ IsNull(row.release_year)
                        => IsNull(row.release_date_parsed)
                  /\ IsNull(row.release_month)
                        => IsNull(row.release_date_parsed)

\* the record of date text "Coming soon" is in the table with no date, no
\* year, no month and the period "unknown"
C12_Witness ==
    /\ Done(11)
    /\ \E row \in Rows(games_df) :
          /\ row.release_date_raw =
                Some(<<"C", "o", "m", "i", "n", "g", " ", "s", "o", "o", "n">>)
          /\ IsNull(row.release_date_parsed)
          /\ IsNull(row.release_year)
          /\ IsNull(row.release_month)
          /\ row.covid_period = "unknown"

\* C13: running the cells of a stage (numeric normalisation, price
\* conversion, date cleaning and parsing, temporal derivation, popularity
\* derivation, category split and explosion) a second time, on the table
\* the stage has just produced, leaves every column of every record of
\* games_df and of genres_exploded_df unchanged.
C13_StagesIdempotent ==
    [][(rerun = "none" /\ rerun' # "none")
           => (games_df' = games_df
                 /\ genres_exploded_df' = genres_exploded_df)]_vars

\* the numeric normalisation has been run twice on a record whose ccu, cast
\* in place, came as a text
C13_Witness ==
    /\ rerun = "numeric"
    /\ \E r \in DOMAIN games_df :
          /\ ~IsNull(Field(df[r].data, "ccu"))
          /\ Val(Field(df[r].data, "ccu")).kind = "text"
          /\ ~IsNull(games_df[r].ccu)

\* the input fields that a stage cleans or casts, each with the column in
\* which the flattener puts it
FlattenedAs ==
    [price        |-> "price_raw",
     initialprice |-> "initialprice_raw",
     discount     |-> "discount_raw",
     required_age |-> "required_age_raw",
     positive     |-> "positive_raw",
     negative     |-> "negative_raw",
     ccu          |-> "ccu",
     genre        |-> "genre_raw",
     release_date |-> "release_date_raw"]

\* C14: once the table is flattened, and whatever stages have run since,
\* the column in which the flattener put a cleaned or cast input field
\* still holds, for every record, the value received from the input.
C14_RawCopiesKept ==
    Done(1) =>
        /\ Len(games_df) = Len(df)
        /\ \A r \in DOMAIN games_df :
              \A f \in DOMAIN FlattenedAs :
                  games_df[r][FlattenedAs[f]] = Field(df[r].data, f)

\* a missing value of a flag replaced by false
AsFalse(v) == IF IsNull(v) THEN Some(FALSE) ELSE v

\* a record with its missing platform flags replaced by false
WithFlagsDefaulted(row) ==
    [row EXCEPT !.platform_windows = AsFalse(@),
                !.platform_mac = AsFalse(@),
                !.platform_linux = AsFalse(@)]

\* C15: the per-platform counts, the four is_* flags (as conditions: set or
\* not set) and platform_profile of every record are those obtained from
\* the same records with every missing platform flag replaced by false.
C15_NullFlagIsFalse ==
    /\ (Done(17) /\ games_df # <<>>) =>
          LET defaulted == MapRows(games_df, WithFlagsDefaulted)
          IN  /\ platform_agg_df[1].windows_count =
                    CountTrue(defaulted, "platform_windows")
              /\ platform_agg_df[1].mac_count =
                    CountTrue(defaulted, "platform_mac")
              /\ platform_agg_df[1].linux_count =
                    CountTrue(defaulted, "platform_linux")
    /\ Done(19) =>
          \A row \in Rows(games_df) :
              LET expected == platform_flags_row(WithFlagsDefaulted(row))
              IN  /\ Holds(row.is_windows_only) = Holds(expected.is_windows_only)
                  /\ Holds(row.is_tri_platform) = Holds(expected.is_tri_platform)
                  /\ Holds(row.is_windows_mac) = Holds(expected.is_windows_mac)
                  /\ Holds(row.is_windows_linux)
                        = Holds(expected.is_windows_linux)
    /\ Done(20) =>
          \A row \in Rows(games_df) :
              row.platform_profile =
                  platform_profile(platform_flags_row(WithFlagsDefaulted(row)))

\* C16: no division raises: the run never stops at an exception, a record
\* whose total_reviews is zero has a null positive_ratio and a genre whose
\* sum_total_reviews is zero has a null positive_rate.
C16_ZeroDenominatorGivesNull ==
    /\ IsNull(raised)
    /\ Done(12) =>
          \A row \in Rows(games_df) :
              row.total_reviews = Some(0) => IsNull(row.positive_ratio)
    /\ Done(16) =>
          \A g \in genre_reviews_df :
              g.sum_total_reviews = Some(0) => IsNull(g.positive_rate)

\* the rows of a table at the positions of S, in row order
Pick(table, S) ==
    LET upto[i \in 0..Len(table)] ==
            IF i = 0 THEN <<>>
            ELSE IF i \in S THEN Append(upto[i - 1], table[i])
            ELSE upto[i - 1]
    IN  upto[Len(table)]

Reverse(table) == [i \in 1..Len(table) |-> table[Len(table) + 1 - i]]

\* the partial aggregates of some rows of one genre
Partial(rows) ==
    [ids |-> DistinctOf(rows, "app_id"),
     sp  |-> SumOf(Column(rows, "positive")),
     sn  |-> SumOf(Column(rows, "negative")),
     st  |-> SumOf(Column(rows, "total_reviews"))]

\* two partial aggregates combined
Merge(a, b) ==
    [ids |-> a.ids \cup b.ids,
     sp  |-> SumLong(a.sp, b.sp),
     sn  |-> SumLong(a.sn, b.sn),
     st  |-> SumLong(a.st, b.st)]

\* the row of genre_reviews_df that combined partial aggregates give
Final(g, a) ==
    [genre |-> g,
     nb_games |-> Cardinality(a.ids),
     sum_positive |-> a.sp,
     sum_negative |-> a.sn,
     sum_total_reviews |-> a.st,
     positive_rate |-> positive_rate(a.sp, a.st)]

\* C17: for every genre and every split of its rows into two parts, the
\* partial aggregates of the parts, each part read in row order or in
\* reverse, combined in either order, give the row that genre_reviews_df
\* holds for the genre and the nb_games that genre_counts_df holds; each
\* frame holds one row per genre.
C17_AggregatesPartitionIndependent ==
    Done(16) =>
        /\ {r.genre : r \in genre_reviews_df} = GenreKeys(genres_exploded_df)
        /\ {r.genre : r \in genre_counts_df} = GenreKeys(genres_exploded_df)
        /\ Cardinality(genre_reviews_df) = Cardinality(genre_counts_df)
        /\ Cardinality(genre_counts_df)
              = Cardinality(GenreKeys(genres_exploded_df))
        /\ \A g \in GenreKeys(genres_exploded_df) :
              LET rows == GroupOf(genres_exploded_df, g)
              IN  \A S \in SUBSET (1..Len(rows)) :
                      LET a  == Partial(Pick(rows, S))
                          ar == Partial(Reverse(Pick(rows, S)))
                          b  == Partial(Pick(rows, (1..Len(rows)) \ S))
                      IN  /\ Final(g, Merge(a, b)) \in genre_reviews_df
                          /\ Final(g, Merge(b, a)) \in genre_reviews_df
                          /\ Final(g, Merge(ar, b)) \in genre_reviews_df
                          /\ Final(g, Merge(b, ar)) \in genre_reviews_df
                          /\ [genre |-> g,
                              nb_games |-> Cardinality(Merge(a, b).ids)]
                                \in genre_counts_df

\* a genre of four rows, one sum of which has wrapped past LongType and
\* another has skipped missing counters
C17_Witness ==
    /\ Done(16)
    /\ \E r \in genre_reviews_df :
          /\ Len(GroupOf(genres_exploded_df, r.genre)) >= 4
          /\ ~IsNull(r.sum_positive)
          /\ Val(r.sum_positive) < 0
          /\ \E row \in Rows(GroupOf(genres_exploded_df, r.genre)) :
                IsNull(row.negative)
          /\ ~IsNull(r.sum_negative)

\* the identifiers of the records that list the genre g among the tokens
\* of their genre list
EntitiesOf(g) ==
    {games_df[r].id :
        r \in {q \in DOMAIN games_df :
                  /\ ~IsNull(games_df[q].genre_array)
                  /\ \E k \in DOMAIN Val(games_df[q].genre_array) :
                        Some(Val(games_df[q].genre_array)[k]) = g}}

\* C18: when every record has an identifier, nb_games of a genre, in
\* genre_counts_df and in price_by_genre_df, is the number of distinct
\* identifiers of the records that list the genre.
C18_NbGamesIsDistinctEntities ==
    (\A row \in Rows(games_df) : ~IsNull(row.id)) =>
        /\ Done(15) =>
              \A r \in genre_counts_df :
                  r.nb_games = Cardinality(EntitiesOf(r.genre))
        /\ Done(22) =>
              \A r \in price_by_genre_df :
                  r.nb_games = Cardinality(EntitiesOf(r.genre))

\* positive lies between 0 and total_reviews, the ratio between 0 and 1
RatioInUnitInterval(row) ==
    /\ 0 <= Val(row.positive)
    /\ Val(row.positive) <= Val(row.total_reviews)
    /\ 0 <= Val(row.positive_ratio).num
    /\ Val(row.positive_ratio).num <= Val(row.positive_ratio).den

\* C19, as stated: every record whose positive_ratio is not null has
\* 0 <= positive <= total_reviews and a ratio between 0 and 1, whatever
\* integers positive and negative are.
C19_RatioInUnitInterval ==
    Done(12) =>
        \A row \in Rows(games_df) :
            ~IsNull(row.positive_ratio) => RatioInUnitInterval(row)

\* C19, amended: a record whose positive_ratio is not null has both
\* counters not null and total_reviews above zero; when moreover neither
\* counter is negative, 0 <= positive <= total_reviews and the ratio is
\* between 0 and 1.
C19_RatioInUnitIntervalIfCountersNonNegative ==
    Done(12) =>
        \A row \in Rows(games_df) :
            ~IsNull(row.positive_ratio) =>
                /\ ~IsNull(row.positive)
                /\ ~IsNull(row.negative)
                /\ ~IsNull(row.total_reviews)
                /\ Val(row.total_reviews) > 0
                /\ (Val(row.positive) >= 0 /\ Val(row.negative) >= 0)
                      => RatioInUnitInterval(row)

\* a record of non-negative counters, positive at the top of LongType, whose
\* ratio is not null
C19_Witness ==
    /\ Done(12)
    /\ \E row \in Rows(games_df) :
          /\ ~IsNull(row.positive_ratio)
          /\ row.positive = Some(LongMax)
          /\ row.negative = Some(0)

RECURSIVE PlainSum(_)
\* the arithmetic sum of the values of a sequence that are not null
PlainSum(vs) ==
    IF vs = <<>> THEN 0
    ELSE (IF IsNull(Head(vs)) THEN 0 ELSE Val(Head(vs))) + PlainSum(Tail(vs))

\* no counter of the rows is negative and their sums stay within LongType
PlainCounters(rows) ==
    /\ \A row \in Rows(rows) :
          /\ IsNull(row.positive) \/ Val(row.positive) >= 0
          /\ IsNull(row.negative) \/ Val(row.negative) >= 0
    /\ PlainSum(Column(rows, "positive")) + PlainSum(Column(rows, "negative"))
          <= LongMax

\* C20: for every genre whose counters are not negative and whose sums stay
\* within LongType, sum_total_reviews is sum_positive + sum_negative (null
\* when either is null) and a positive_rate that is not null has
\* 0 <= sum_positive <= sum_total_reviews.
C20_SumTotalIsSumOfSums ==
    Done(16) =>
        \A r \in genre_reviews_df :
            PlainCounters(GroupOf(genres_exploded_df, r.genre)) =>
                /\ r.sum_total_reviews = AddLong(r.sum_positive, r.sum_negative)
                /\ ~IsNull(r.positive_rate) =>
                      /\ 0 <= Val(r.sum_positive)
                      /\ Val(r.sum_positive) <= Val(r.sum_total_reviews)

\* the four branches of the F.when chain: a flag and the label it gives
ProfileBranches ==
    {[flag |-> "is_tri_platform",  label |-> "Windows + macOS + Linux"],
     [flag |-> "is_windows_mac",   label |-> "Windows + macOS"],
     [flag |-> "is_windows_linux", label |-> "Windows + Linux"],
     [flag |-> "is_windows_only",  label |-> "Windows only"]}

\* the orders in which the four branches can be written
BranchOrders ==
    {o \in [1..4 -> ProfileBranches] :
        \A i, j \in 1..4 : o[i] = o[j] => i = j}

RECURSIVE ChainLabel(_, _)
\* the label a chain of branches written in the order o gives to a row: that
\* of the first branch whose flag is set, "Others" when none is
ChainLabel(row, o) ==
    IF o = <<>> THEN "Others"
    ELSE IF Holds(row[Head(o).flag]) THEN Head(o).label
    ELSE ChainLabel(row, Tail(o))

\* C21: for every record, whatever its platform flags (true, false or
\* missing), at most one of is_windows_only, is_tri_platform,
\* is_windows_mac and is_windows_linux is true; platform_profile is one of
\* the five labels, "Others" exactly when no flag is true and otherwise the
\* label of the flag that is, and it is the label that the chain gives with
\* its four branches written in any order.
C21_ProfileBranchesExclusive ==
    /\ Done(19) =>
          \A row \in Rows(games_df) :
              Cardinality({b \in ProfileBranches : Holds(row[b.flag])}) <= 1
    /\ Done(20) =>
          \A row \in Rows(games_df) :
              /\ row.platform_profile \in
                    {b.label : b \in ProfileBranches} \cup {"Others"}
              /\ row.platform_profile = "Others"
                    <=> \A b \in ProfileBranches : ~Holds(row[b.flag])
              /\ \A b \in ProfileBranches :
                    Holds(row[b.flag]) => row.platform_profile = b.label
              /\ \A o \in BranchOrders :
                    row.platform_profile = ChainLabel(row, o)

\* a table with a Windows + macOS record, whose one true flag gives its
\* label, and a record of a missing flag, which no flag describes
C21_Witness ==
    /\ Done(20)
    /\ \E row \in Rows(games_df) :
          /\ Holds(row.is_windows_mac)
          /\ row.platform_profile = "Windows + macOS"
    /\ \E row \in Rows(games_df) :
          /\ IsNull(row.platform_mac)
          /\ row.platform_windows = Some(TRUE)
          /\ row.platform_profile = "Others"

====
